---- MODULE Spec2Model ----
(***************************************************************************)
(* Model of file-unicode-normalizer (src/main.py): the command-line entry  *)
(* point main(), normalize_unicode(), the text-mode file reads and writes  *)
(* it performs, and the Unicode normalization it delegates to.             *)
(*                                                                         *)
(* Files hold bytes (integers 0..255); text buffers hold code points.      *)
(***************************************************************************)
EXTENDS Integers, Sequences, FiniteSets, TLC

\* ------------------------------------------------------------------------
\* Bounds of the model
\* ------------------------------------------------------------------------

\* Largest number of units (see Units) an input file is built from.
MaxUnits == 2

\* ------------------------------------------------------------------------
\* Bytes and code points used by the inputs
\* ------------------------------------------------------------------------
LF == 10
CR == 13

\* The pieces input files are built from: LF, CR, "e", U+0301 (combining
\* acute, CC 81), U+0329 (combining vertical line below, CC A9), U+00E9
\* (e-acute, C3 A9), U+00AA (feminine ordinal, C2 AA), and two fragments that
\* are invalid UTF-8 on their own: a lead byte C3 and a continuation byte A9.
Units ==
    { <<10>>, <<13>>, <<101>>, <<204, 129>>, <<204, 169>>, <<195, 169>>,
      <<194, 170>>, <<195>>, <<169>> }

RECURSIVE Flatten(_)
Flatten(ss) ==
    IF ss = <<>> THEN <<>> ELSE Head(ss) \o Flatten(Tail(ss))

UnitSeqs == UNION { [1..n -> Units] : n \in 0..MaxUnits }

\* ------------------------------------------------------------------------
\* UTF-8 (open(..., encoding='utf-8'), errors='strict')
\* ------------------------------------------------------------------------
IsCont(b) == b >= 128 /\ b <= 191

\* Number of bytes of the sequence a lead byte announces; 0 for a byte that
\* cannot start a sequence (continuation bytes, C0, C1, F5..FF).
SeqLen(b) ==
    IF b < 128 THEN 1
    ELSE IF b >= 194 /\ b <= 223 THEN 2
    ELSE IF b >= 224 /\ b <= 239 THEN 3
    ELSE IF b >= 240 /\ b <= 244 THEN 4
    ELSE 0

\* The second byte's extra range restrictions (overlong forms, surrogates,
\* values above U+10FFFF).
SecondOk(b1, b2) ==
    /\ IsCont(b2)
    /\ (b1 = 224 => b2 >= 160)
    /\ (b1 = 237 => b2 <= 159)
    /\ (b1 = 240 => b2 >= 144)
    /\ (b1 = 244 => b2 <= 143)

CodePointOf(bs) ==
    IF Len(bs) = 1 THEN bs[1]
    ELSE IF Len(bs) = 2 THEN (bs[1] - 192) * 64 + (bs[2] - 128)
    ELSE IF Len(bs) = 3
         THEN (bs[1] - 224) * 4096 + (bs[2] - 128) * 64 + (bs[3] - 128)
    ELSE (bs[1] - 240) * 262144 + (bs[2] - 128) * 4096
         + (bs[3] - 128) * 64 + (bs[4] - 128)

\* Strict decoding of a whole file: ok = FALSE stands for UnicodeDecodeError.
RECURSIVE Utf8Decode(_)
Utf8Decode(bs) ==
    IF bs = <<>> THEN [ok |-> TRUE, text |-> <<>>]
    ELSE LET n == SeqLen(bs[1]) IN
         IF n = 0 \/ Len(bs) < n THEN [ok |-> FALSE, text |-> <<>>]
         ELSE IF n >= 2 /\ ~SecondOk(bs[1], bs[2])
              THEN [ok |-> FALSE, text |-> <<>>]
         ELSE IF \E i \in 3..n : ~IsCont(bs[i])
              THEN [ok |-> FALSE, text |-> <<>>]
         ELSE LET rest == Utf8Decode(SubSeq(bs, n + 1, Len(bs))) IN
              IF rest.ok
              THEN [ok |-> TRUE,
                    text |-> <<CodePointOf(SubSeq(bs, 1, n))>> \o rest.text]
              ELSE rest

EncodeCodePoint(c) ==
    IF c < 128 THEN <<c>>
    ELSE IF c < 2048 THEN <<192 + (c \div 64), 128 + (c % 64)>>
    ELSE IF c < 65536
         THEN <<224 + (c \div 4096), 128 + ((c \div 64) % 64), 128 + (c % 64)>>
    ELSE <<240 + (c \div 262144), 128 + ((c \div 4096) % 64),
           128 + ((c \div 64) % 64), 128 + (c % 64)>>

RECURSIVE Utf8Encode(_)
Utf8Encode(text) ==
    IF text = <<>> THEN <<>>
    ELSE EncodeCodePoint(Head(text)) \o Utf8Encode(Tail(text))

\* ------------------------------------------------------------------------
\* Newline handling of text-mode files (open() with newline=None)
\* ------------------------------------------------------------------------

\* A reader that hands the decoded text over untouched (newline='').
RECURSIVE UniversalNewlines_verbatim(_)
UniversalNewlines_verbatim(text) ==
    IF text = <<>> THEN <<>>
    ELSE <<Head(text)>> \o UniversalNewlines_verbatim(Tail(text))

\* Reading: CR LF and a lone CR both become LF.
RECURSIVE UniversalNewlines(_)
UniversalNewlines(text) ==
    IF text = <<>> THEN <<>>
    ELSE IF Head(text) = CR
         THEN IF Len(text) >= 2 /\ text[2] = LF
              THEN <<LF>> \o UniversalNewlines(Tail(Tail(text)))
              ELSE <<LF>> \o UniversalNewlines(Tail(text))
    ELSE <<Head(text)>> \o UniversalNewlines(Tail(text))

\* Writing: every LF becomes os.linesep.
RECURSIVE WriteNewlines(_, _)
WriteNewlines(text, sep) ==
    IF text = <<>> THEN <<>>
    ELSE IF Head(text) = LF THEN sep \o WriteNewlines(Tail(text), sep)
    ELSE <<Head(text)>> \o WriteNewlines(Tail(text), sep)

\* ------------------------------------------------------------------------
\* unicodedata.normalize, on the code points the inputs can produce:
\* 0A 0D 61 65 AA E1 E9 0301 0329
\* ------------------------------------------------------------------------
Forms == {"NFC", "NFKD", "NFD", "NFKC"}

\* Canonical combining class.
CCC(c) == IF c = 769 THEN 230 ELSE IF c = 809 THEN 220 ELSE 0

\* Canonical decomposition mapping of one code point.
CanonDecomp(c) ==
    IF c = 233 THEN <<101, 769>>
    ELSE IF c = 225 THEN <<97, 769>>
    ELSE <<c>>

\* Compatibility decomposition mapping of one code point.
CompatDecomp(c) == IF c = 170 THEN <<97>> ELSE CanonDecomp(c)

RECURSIVE FullDecomp(_, _)
FullDecomp(c, compat) ==
    LET d == IF compat THEN CompatDecomp(c) ELSE CanonDecomp(c) IN
    IF d = <<c>> THEN d
    ELSE Flatten([i \in 1..Len(d) |-> FullDecomp(d[i], compat)])

Decompose(text, compat) ==
    Flatten([i \in 1..Len(text) |-> FullDecomp(text[i], compat)])

\* Canonical ordering: exchange adjacent marks that are out of order until
\* none is left.
RECURSIVE Reorder(_)
Reorder(text) ==
    LET bad == { i \in 1..(Len(text) - 1) :
                    CCC(text[i + 1]) > 0 /\ CCC(text[i]) > CCC(text[i + 1]) }
    IN IF bad = {} THEN text
       ELSE LET i == CHOOSE j \in bad : \A k \in bad : j <= k IN
            Reorder([text EXCEPT ![i] = text[i + 1], ![i + 1] = text[i]])

\* Primary composites: 0 when the pair has none.
Composite(a, b) ==
    IF a = 101 /\ b = 769 THEN 233
    ELSE IF a = 97 /\ b = 769 THEN 225
    ELSE 0

\* Canonical composition. out is the text built so far, starter the index in
\* out of the last starter (0: none), last the combining class of the last
\* code point appended.
RECURSIVE ComposeFrom(_, _, _, _)
ComposeFrom(text, out, starter, last) ==
    IF text = <<>> THEN out
    ELSE LET c  == Head(text)
             cc == CCC(c)
             p  == IF starter = 0 THEN 0 ELSE Composite(out[starter], c)
         IN IF starter > 0 /\ (last < cc \/ last = 0) /\ p # 0
            THEN ComposeFrom(Tail(text), [out EXCEPT ![starter] = p],
                             starter, last)
            ELSE ComposeFrom(Tail(text), Append(out, c),
                             IF cc = 0 THEN Len(out) + 1 ELSE starter, cc)

Compose(text) == ComposeFrom(text, <<>>, 0, 0)

normalize(form, text) ==
    LET compat == form \in {"NFKC", "NFKD"}
        d      == Reorder(Decompose(text, compat))
    IN IF form \in {"NFC", "NFKC"} THEN Compose(d) ELSE d

\* ------------------------------------------------------------------------
\* Exceptions and the except chains
\* ------------------------------------------------------------------------

\* The classes an exception is an instance of (Python's built-in hierarchy).
Supers(e) ==
    IF e = "FileNotFoundError" THEN {"FileNotFoundError", "OSError", "Exception"}
    ELSE IF e = "IsADirectoryError" THEN {"IsADirectoryError", "OSError", "Exception"}
    ELSE IF e = "PermissionError" THEN {"PermissionError", "OSError", "Exception"}
    ELSE IF e = "OSError" THEN {"OSError", "Exception"}
    ELSE IF e = "UnicodeDecodeError" THEN {"UnicodeDecodeError", "ValueError", "Exception"}
    ELSE IF e = "ValueError" THEN {"ValueError", "Exception"}
    ELSE {"Exception"}

\* The except clauses of normalize_unicode's try statement, in order.
NuHandlers == <<"FileNotFoundError", "OSError", "UnicodeDecodeError", "Exception">>

\* A main() whose try statement only expects the errors of the form check.
MainHandlers_valueOnly == <<"ValueError", "UnicodeDecodeError">>

\* The except clauses of main's try statement, in order.
MainHandlers == <<"ValueError", "FileNotFoundError", "OSError", "UnicodeDecodeError", "Exception">>

\* Index of the first clause that catches e; 0 when none does.
FirstMatch(handlers, e) ==
    LET hits == { i \in 1..Len(handlers) : handlers[i] \in Supers(e) } IN
    IF hits = {} THEN 0 ELSE CHOOSE i \in hits : \A j \in hits : i <= j

\* ------------------------------------------------------------------------
\* Logging
\* ------------------------------------------------------------------------
LogLevels == {"DEBUG", "INFO", "WARNING", "ERROR", "CRITICAL"}

LevelNo(l) ==
    IF l = "DEBUG" THEN 10
    ELSE IF l = "INFO" THEN 20
    ELSE IF l = "WARNING" THEN 30
    ELSE IF l = "ERROR" THEN 40
    ELSE 50

\* ------------------------------------------------------------------------
\* State
\* ------------------------------------------------------------------------
Paths == {"a", "b", "c"}

Absent == [kind |-> "absent", data |-> <<>>]
Dir    == [kind |-> "dir", data |-> <<>>]
File(bs) == [kind |-> "file", data |-> bs]

\* Exit status of a process that has not exited / of a direct call.
NoExit == -1

VARIABLES
    mode,           \* "cli": python main.py ...; "direct": normalize_unicode(...)
    form,           \* --form / normalization_form
    logLevel,       \* level of the root logger
    linesep,        \* os.linesep of the platform
    fs,             \* the filesystem: path -> entry
    fs0,            \* fs when the current run started
    input_file,     \* the run's input path
    output_file,    \* the run's output path
    pc,             \* the statement the run is at
    content,        \* normalize_unicode's content
    normalized_content,
    log,            \* the logging calls made, in order
    exc,            \* the exception that ended the run, "none" if none
    result,         \* how the run ended
    exitCode,       \* the process's exit status
    failedAt,       \* the step that raised
    touched,        \* filesystem operations the run has performed
    removedAt,      \* where the run was when another process removed the input
    run             \* 1: first run, 2: the run on the first run's output

vars == <<mode, form, logLevel, linesep, fs, fs0, input_file, output_file, pc,
          content, normalized_content, log, exc, result, exitCode, failedAt,
          touched, removedAt, run>>

\* One logging call; emitted tells whether the root logger's level lets it
\* through to the stream.
LogRec(level, origin, label) ==
    [level |-> level, origin |-> origin, label |-> label,
     emitted |-> LevelNo(level) >= LevelNo(logLevel)]

\* What normalize_unicode's except chain logs for an exception raised inside
\* its try statement (every clause re-raises).
NuLog(e) ==
    LET i == FirstMatch(NuHandlers, e) IN
    IF i = 0 THEN <<>>
    ELSE <<LogRec("ERROR", "normalize_unicode", NuHandlers[i])>>

\* What main's except chain logs for an exception that reaches it.
MainLog(e) ==
    LET i == FirstMatch(MainHandlers, e) IN
    IF i = 0 THEN <<>>
    ELSE <<LogRec("ERROR", "main", MainHandlers[i])>>

\* The run ends with exception e raised by step; inTry tells whether the
\* raising statement is inside normalize_unicode's try statement.
Fail(e, inTry, step) ==
    LET l1 == IF inTry THEN log \o NuLog(e) ELSE log IN
    /\ exc' = e
    /\ failedAt' = step
    /\ pc' = "done"
    /\ IF mode = "cli"
       THEN /\ log' = l1 \o MainLog(e)
            /\ exitCode' = 1
            /\ result' = IF FirstMatch(MainHandlers, e) = 0
                         THEN "uncaught" ELSE "exit"
       ELSE /\ log' = l1
            /\ exitCode' = NoExit
            /\ result' = "raised"

Init ==
    /\ mode \in {"cli", "direct"}
    /\ form \in Forms \cup {"XYZ"}
    /\ logLevel \in (IF mode = "cli" THEN LogLevels ELSE {"INFO"})
    /\ linesep \in {<<LF>>, <<CR, LF>>}
    /\ input_file = "a"
    /\ output_file = "b"
    /\ \E i \in {Absent, Dir} \cup { File(Flatten(us)) : us \in UnitSeqs },
          o \in {Absent, Dir, File(<<101>>)} :
          fs = [p \in Paths |-> IF p = "a" THEN i ELSE IF p = "b" THEN o ELSE Absent]
    /\ fs0 = fs
    /\ pc = IF mode = "cli" THEN "parse_args" ELSE "nu_form"
    /\ content = <<>>
    /\ normalized_content = <<>>
    /\ log = <<>>
    /\ exc = "none"
    /\ result = "running"
    /\ exitCode = NoExit
    /\ failedAt = "none"
    /\ touched = {}
    /\ removedAt = "none"
    /\ run = 1

\* ------------------------------------------------------------------------
\* main()
\* ------------------------------------------------------------------------

\* parser.parse_args() and the setLevel that follows it. A --form value that
\* is not among the choices makes argparse print a usage message and exit
\* with status 2.
ParseArgs ==
    /\ pc = "parse_args"
    /\ IF form \notin Forms
       THEN /\ pc' = "done"
            /\ result' = "usage_error"
            /\ exitCode' = 2
            /\ failedAt' = "parse_args"
       ELSE /\ pc' = "main_is_file"
            /\ UNCHANGED <<result, exitCode, failedAt>>
    /\ UNCHANGED <<mode, form, logLevel, linesep, fs, fs0, input_file,
                   output_file, content, normalized_content, log, exc,
                   touched, removedAt, run>>

\* if not args.input_file.is_file(): logging.error(...); sys.exit(1)
MainIsFile ==
    /\ pc = "main_is_file"
    /\ touched' = touched \cup {"stat"}
    /\ IF fs[input_file].kind # "file"
       THEN /\ log' = Append(log, LogRec("ERROR", "main", "is_file"))
            /\ pc' = "done"
            /\ result' = "exit"
            /\ exitCode' = 1
            /\ failedAt' = "is_file"
       ELSE /\ pc' = "nu_form"
            /\ UNCHANGED <<log, result, exitCode, failedAt>>
    /\ UNCHANGED <<mode, form, logLevel, linesep, fs, fs0, input_file,
                   output_file, content, normalized_content, exc, removedAt,
                   run>>

\* ------------------------------------------------------------------------
\* normalize_unicode()
\* ------------------------------------------------------------------------

\* if normalization_form not in [...]: raise ValueError
NuCheckForm ==
    /\ pc = "nu_form"
    /\ IF form \notin Forms
       THEN Fail("ValueError", FALSE, "form")
       ELSE /\ pc' = "nu_exists"
            /\ UNCHANGED <<log, exc, result, exitCode, failedAt>>
    /\ UNCHANGED <<mode, form, logLevel, linesep, fs, fs0, input_file,
                   output_file, content, normalized_content, touched,
                   removedAt, run>>

\* if not input_file.exists(): raise FileNotFoundError
NuExists ==
    /\ pc = "nu_exists"
    /\ touched' = touched \cup {"stat"}
    /\ IF fs[input_file].kind = "absent"
       THEN Fail("FileNotFoundError", FALSE, "exists")
       ELSE /\ pc' = "nu_read"
            /\ UNCHANGED <<log, exc, result, exitCode, failedAt>>
    /\ UNCHANGED <<mode, form, logLevel, linesep, fs, fs0, input_file,
                   output_file, content, normalized_content, removedAt, run>>

\* A reader that opens both files in one with statement, so that the output
\* is truncated before the input has been read and decoded.
NuRead_openBoth ==
    /\ pc = "nu_read"
    /\ \E os \in {"ok", "PermissionError", "OSError"} :
         LET entry == fs[input_file]
             dec   == Utf8Decode(entry.data)
             both  == IF fs[output_file].kind = "dir" THEN fs
                      ELSE [fs EXCEPT ![output_file] = File(<<>>)]
         IN
         IF entry.kind = "absent"
         THEN /\ os = "ok"
              /\ touched' = touched \cup {"open_r"}
              /\ Fail("FileNotFoundError", TRUE, "open_read")
              /\ UNCHANGED <<content, fs>>
         ELSE IF entry.kind = "dir"
         THEN /\ os = "ok"
              /\ touched' = touched \cup {"open_r"}
              /\ Fail("IsADirectoryError", TRUE, "open_read")
              /\ UNCHANGED <<content, fs>>
         ELSE IF os = "PermissionError"
         THEN /\ touched' = touched \cup {"open_r"}
              /\ Fail("PermissionError", TRUE, "open_read")
              /\ UNCHANGED <<content, fs>>
         ELSE IF os = "OSError"
         THEN /\ touched' = touched \cup {"open_r", "open_w", "read"}
              /\ fs' = both
              /\ Fail("OSError", TRUE, "read")
              /\ UNCHANGED content
         ELSE IF ~dec.ok
         THEN /\ touched' = touched \cup {"open_r", "open_w", "read"}
              /\ fs' = both
              /\ Fail("UnicodeDecodeError", TRUE, "decode")
              /\ UNCHANGED content
         ELSE /\ touched' = touched \cup {"open_r", "open_w", "read"}
              /\ fs' = both
              /\ content' = UniversalNewlines(dec.text)
              /\ pc' = "nu_normalize"
              /\ UNCHANGED <<log, exc, result, exitCode, failedAt>>
    /\ UNCHANGED <<mode, form, logLevel, linesep, fs0, input_file,
                   output_file, normalized_content, removedAt, run>>

\* with open(input_file, 'r', encoding='utf-8') as infile:
\*     content = infile.read()
\* os tells how the operating system answers: "ok", a refused open
\* ("PermissionError") or a failing read ("OSError").
NuRead ==
    /\ pc = "nu_read"
    /\ \E os \in {"ok", "PermissionError", "OSError"} :
         LET entry == fs[input_file]
             dec   == Utf8Decode(entry.data)
         IN
         IF entry.kind = "absent"
         THEN /\ os = "ok"
              /\ touched' = touched \cup {"open_r"}
              /\ Fail("FileNotFoundError", TRUE, "open_read")
              /\ UNCHANGED content
         ELSE IF entry.kind = "dir"
         THEN /\ os = "ok"
              /\ touched' = touched \cup {"open_r"}
              /\ Fail("IsADirectoryError", TRUE, "open_read")
              /\ UNCHANGED content
         ELSE IF os = "PermissionError"
         THEN /\ touched' = touched \cup {"open_r"}
              /\ Fail("PermissionError", TRUE, "open_read")
              /\ UNCHANGED content
         ELSE IF os = "OSError"
         THEN /\ touched' = touched \cup {"open_r", "read"}
              /\ Fail("OSError", TRUE, "read")
              /\ UNCHANGED content
         ELSE IF ~dec.ok
         THEN /\ touched' = touched \cup {"open_r", "read"}
              /\ Fail("UnicodeDecodeError", TRUE, "decode")
              /\ UNCHANGED content
         ELSE /\ touched' = touched \cup {"open_r", "read"}
              /\ content' = UniversalNewlines(dec.text)
              /\ pc' = "nu_normalize"
              /\ UNCHANGED <<log, exc, result, exitCode, failedAt>>
    /\ UNCHANGED <<mode, form, logLevel, linesep, fs, fs0, input_file,
                   output_file, normalized_content, removedAt, run>>

\* normalized_content = unicodedata.normalize(normalization_form, content)
NuNormalize ==
    /\ pc = "nu_normalize"
    /\ normalized_content' = normalize(form, content)
    /\ pc' = "nu_write"
    /\ UNCHANGED <<mode, form, logLevel, linesep, fs, fs0, input_file,
                   output_file, content, log, exc, result, exitCode, failedAt,
                   touched, removedAt, run>>

\* with open(output_file, 'w', encoding='utf-8') as outfile:
\*     outfile.write(normalized_content)
\* A refused open leaves the path as it is; a write that fails leaves the
\* first k bytes in the truncated file.
NuWrite ==
    /\ pc = "nu_write"
    /\ \E os \in {"ok", "PermissionError", "OSError"} :
         LET bytes == Utf8Encode(WriteNewlines(normalized_content, linesep)) IN
         IF fs[output_file].kind = "dir"
         THEN /\ os = "ok"
              /\ touched' = touched \cup {"open_w"}
              /\ Fail("IsADirectoryError", TRUE, "open_write")
              /\ UNCHANGED fs
         ELSE IF os = "PermissionError"
         THEN /\ touched' = touched \cup {"open_w"}
              /\ Fail("PermissionError", TRUE, "open_write")
              /\ UNCHANGED fs
         ELSE IF os = "OSError"
         THEN /\ touched' = touched \cup {"open_w", "write"}
              /\ \E k \in 0..Len(bytes) :
                    fs' = [fs EXCEPT ![output_file] = File(SubSeq(bytes, 1, k))]
              /\ Fail("OSError", TRUE, "write")
         ELSE /\ touched' = touched \cup {"open_w", "write"}
              /\ fs' = [fs EXCEPT ![output_file] = File(bytes)]
              /\ pc' = "nu_info"
              /\ UNCHANGED <<log, exc, result, exitCode, failedAt>>
    /\ UNCHANGED <<mode, form, logLevel, linesep, fs0, input_file,
                   output_file, content, normalized_content, removedAt, run>>

\* logging.info("Successfully normalized ..."), the return of
\* normalize_unicode and, from the command line, the return of main.
NuLogSuccess ==
    /\ pc = "nu_info"
    /\ log' = Append(log, LogRec("INFO", "normalize_unicode", "success"))
    /\ pc' = "done"
    /\ result' = IF mode = "cli" THEN "exit" ELSE "returned"
    /\ exitCode' = IF mode = "cli" THEN 0 ELSE NoExit
    /\ UNCHANGED <<mode, form, logLevel, linesep, fs, fs0, input_file,
                   output_file, content, normalized_content, exc, failedAt,
                   touched, removedAt, run>>

\* ------------------------------------------------------------------------
\* The environment
\* ------------------------------------------------------------------------

\* Another process removes the input file while the run is in progress.
RemoveInput ==
    /\ pc # "done"
    /\ removedAt = "none"
    /\ fs[input_file].kind = "file"
    /\ fs' = [fs EXCEPT ![input_file] = Absent]
    /\ removedAt' = pc
    /\ UNCHANGED <<mode, form, logLevel, linesep, fs0, input_file,
                   output_file, pc, content, normalized_content, log, exc,
                   result, exitCode, failedAt, touched, run>>

Succeeded == pc = "done" /\ result \in {"exit", "returned"} /\ failedAt = "none"

\* The user runs the normalizer again, with the same form, on the output of
\* a first run that succeeded.
SecondRun ==
    /\ Succeeded
    /\ run = 1
    /\ run' = 2
    /\ input_file' = output_file
    /\ output_file' = "c"
    /\ fs0' = fs
    /\ pc' = IF mode = "cli" THEN "parse_args" ELSE "nu_form"
    /\ content' = <<>>
    /\ normalized_content' = <<>>
    /\ log' = <<>>
    /\ exc' = "none"
    /\ result' = "running"
    /\ exitCode' = NoExit
    /\ failedAt' = "none"
    /\ touched' = {}
    /\ removedAt' = "none"
    /\ UNCHANGED <<mode, form, logLevel, linesep, fs>>

Next ==
    \/ ParseArgs
    \/ MainIsFile
    \/ NuCheckForm
    \/ NuExists
    \/ NuRead
    \/ NuNormalize
    \/ NuWrite
    \/ NuLogSuccess
    \/ RemoveInput
    \/ SecondRun

Spec == Init /\ [][Next]_vars

\* ------------------------------------------------------------------------
\* The error taxonomy
\* ------------------------------------------------------------------------

\* The classification a log line carries: the except clause (or the is_file
\* branch) that wrote it.
Classify(label) ==
    IF label = "ValueError" THEN "InvalidArgument"
    ELSE IF label = "FileNotFoundError" THEN "NotFound"
    ELSE IF label = "is_file" THEN "InvalidInput"
    ELSE IF label = "UnicodeDecodeError" THEN "DecodeError"
    ELSE IF label = "OSError" THEN "IOError"
    ELSE IF label = "Exception" THEN "Unexpected"
    ELSE "none"

ErrorRecs == { i \in 1..Len(log) : log[i].level = "ERROR" }

EarlySteps ==
    {"parse_args", "is_file", "form", "exists", "open_read", "read", "decode"}

\* ------------------------------------------------------------------------
\* Properties
\* ------------------------------------------------------------------------

\* C1: a run whose form is outside {NFC, NFD, NFKC, NFKD} fails as
\* InvalidArgument, with exit code 1 from the command line, and has performed
\* no filesystem operation.
C1_InvalidFormFailsBeforeIO ==
    (pc = "done" /\ form \notin Forms) =>
        /\ touched = {}
        /\ fs = fs0
        /\ mode = "direct" => exc = "ValueError"
        /\ mode = "cli" => exitCode = 1

\* C2: when a run fails in the form validation, the input-path validation,
\* the read or the decode, the output path is exactly as it was when the run
\* started.
C2_OutputUntouchedOnEarlyFailure ==
    (pc = "done" /\ failedAt \in EarlySteps) =>
        fs[output_file] = fs0[output_file]

\* A decode failure of a run whose output path already held a file.
C2_Witness ==
    /\ pc = "done"
    /\ failedAt = "decode"
    /\ fs0[output_file].kind = "file"
    /\ fs[output_file] = File(<<101>>)

\* C3: after a successful run the output file holds exactly the UTF-8
\* encoding of the selected normalization form of the decoded input bytes.
C3_OutputIsNormalizedInput ==
    Succeeded =>
        fs[output_file] =
            File(Utf8Encode(normalize(form, Utf8Decode(fs0[input_file].data).text)))

\* C4: a command-line run ends with exit code 0 or 1, and with 0 exactly
\* when the normalization completed and the output was written.
C4_ExitCodeZeroOrOne ==
    (pc = "done" /\ mode = "cli") =>
        /\ exitCode \in {0, 1}
        /\ exitCode = 0 <=> (failedAt = "none" /\ "write" \in touched)

\* C5: an input that is not valid UTF-8 fails as DecodeError in every error
\* line, those of normalize_unicode and those of main.
C5_DecodeErrorEverywhere ==
    (pc = "done" /\ failedAt = "decode") =>
        /\ exc = "UnicodeDecodeError"
        /\ ErrorRecs # {}
        /\ \A i \in ErrorRecs : Classify(log[i].label) = "DecodeError"

\* C6: a nonexistent input path fails as NotFound, with exit code 1 from the
\* command line, and never as InvalidInput.
C6_MissingInputIsNotFound ==
    (pc = "done" /\ form \in Forms /\ fs0[input_file].kind = "absent") =>
        /\ mode = "direct" => exc = "FileNotFoundError"
        /\ mode = "cli" => exitCode = 1
        /\ \A i \in ErrorRecs : Classify(log[i].label) = "NotFound"

\* C7: a directory given as input fails as InvalidInput, from the command
\* line and in a direct call, never as NotFound, IOError or Unexpected.
C7_DirectoryIsInvalidInput ==
    (pc = "done" /\ form \in Forms /\ fs0[input_file].kind = "dir") =>
        /\ result # "returned"
        /\ mode = "cli" => exitCode = 1
        /\ \A i \in ErrorRecs : Classify(log[i].label) = "InvalidInput"

\* C8: every error that leaves normalize_unicode has been logged at error
\* level by normalize_unicode first.
C8_LoggedBeforePropagating ==
    (pc = "done" /\ failedAt \notin {"none", "parse_args", "is_file"}) =>
        \E i \in ErrorRecs : log[i].origin = "normalize_unicode"

\* C9: a second run with the same form on the output of a first run succeeds
\* and writes a file byte-identical to its input (when nothing removes the
\* file under it and the operating system refuses nothing).
C9_SecondRunIsFixedPoint ==
    (pc = "done" /\ run = 2 /\ removedAt = "none"
        /\ exc \notin {"PermissionError", "OSError"}) =>
        /\ Succeeded
        /\ fs[output_file] = fs[input_file]

\* A second run has completed after a first run that changed the content.
C9_Witness ==
    /\ pc = "done"
    /\ run = 2
    /\ Succeeded
    /\ fs["a"].kind = "file"
    /\ fs["b"] # fs["a"]
    /\ fs["c"] = fs["b"]

\* C10 as stated: when the input is removed between main's is_file() and
\* the open, an error-level line reaches the log, the exit code is 1, the
\* output path is untouched and no exception is left uncaught.
C10_RemovalFailsWithErrorLine ==
    (pc = "done" /\ mode = "cli" /\ removedAt \in {"nu_form", "nu_exists", "nu_read"}) =>
        /\ exitCode = 1
        /\ result = "exit"
        /\ fs[output_file] = fs0[output_file]
        /\ \E i \in ErrorRecs : log[i].emitted

\* C10 amended: when the input is removed between main's is_file() and the
\* open, logging.error is called, its line reaches the stream unless the
\* level is CRITICAL, the exit code is 1, the output path is untouched and no
\* exception is left uncaught.
C10_RemovalFailsWithErrorCall ==
    (pc = "done" /\ mode = "cli" /\ removedAt \in {"nu_form", "nu_exists", "nu_read"}) =>
        /\ exitCode = 1
        /\ result = "exit"
        /\ fs[output_file] = fs0[output_file]
        /\ ErrorRecs # {}
        /\ \A i \in ErrorRecs : log[i].emitted <=> logLevel # "CRITICAL"

\* The input was removed after exists() and before the open.
C10_Witness ==
    /\ pc = "done"
    /\ mode = "cli"
    /\ removedAt = "nu_read"
    /\ failedAt = "open_read"
    /\ fs0[output_file].kind = "file"

====
